---- MODULE Spec2Model ----
(***************************************************************************)
(* Model of src/pandas_questions.py: the four table transformations        *)
(*   merge_regions_and_departments, merge_referendum_and_areas,            *)
(*   compute_referendum_result_by_regions, plot_referendum_map.            *)
(*                                                                         *)
(* A DataFrame is a sequence of rows, a row is a record of cells.          *)
(* A string cell is a sequence of one-character strings; a missing string  *)
(* cell is NA.  A count cell is <<n>>, a missing count cell is <<>>.       *)
(* Each specification calls one function on inputs drawn from bounded      *)
(* sets; pc names the function before the call and is "return" after it.               *)
(***************************************************************************)
EXTENDS Integers, Sequences, FiniteSets, TLC

VARIABLES pc,                   \* the function about to be called, or "return"
    df_reg,                         \* regions table            [code, name]
    df_dep,                         \* departments table        [region_code, code, name]
    regions_and_departments,        \* area table               [code_reg, name_reg, code_dep, name_dep]
    referendum,                     \* ballot table
    local_referendum,               \* the name `referendum` as rebound inside merge_referendum_and_areas
    local_regions_and_departments,  \* the name `regions_and_departments` as rebound inside it
    referendum_and_areas,           \* joined ballot table
    referendum_result_by_regions,   \* per-region table, keyed by code_reg
    gdf,                            \* content of data/regions.geojson [code, geometry]
    map                             \* table returned by plot_referendum_map

vars == <<pc, df_reg, df_dep, regions_and_departments, referendum,
          local_referendum, local_regions_and_departments,
          referendum_and_areas, referendum_result_by_regions, gdf, map>>

-----------------------------------------------------------------------------
(* Bounds of the model.                                                    *)

MaxRegions == 2
MaxDepartments == 2
MaxBallots == 2
MaxAreas == 2
MaxTerritoryCodeLen == 4
MaxJoinedRows == 2
MaxVotes == 2
MaxGeo == 2

-----------------------------------------------------------------------------
(* Cells and strings.                                                      *)

\* A missing string cell (NaN / None in an object column).
NA == <<"<NA>">>

\* A missing count cell (NaN in a numeric column).
Missing == <<>>

\* A string of the model, from characters.
Str1(a) == <<a>>

\* Characters in code-point order, for comparisons of strings.
Chars == <<"\t", "\n", "\r", " ", "0", "1", "2", "3", "4", "5", "6", "7", "8", "9",
           "A", "B", "X", "Y", "Z", "a", "n", "z">>

Ord(c) == CHOOSE i \in 1..Len(Chars) : Chars[i] = c

\* Lexicographic s < t on strings.
RECURSIVE StrLess(_, _)
StrLess(s, t) ==
    IF t = <<>> THEN FALSE
    ELSE IF s = <<>> THEN TRUE
    ELSE IF Head(s) = Head(t) THEN StrLess(Tail(s), Tail(t))
    ELSE Ord(Head(s)) < Ord(Head(t))

\* regex \d, on the characters of the model
IsDigit(c) == c \in {"0", "1", "2", "3", "4", "5", "6", "7", "8", "9"}

\* str.isspace, on the characters of the model
IsSpace(c) == c \in {" ", "\t", "\n", "\r"}

\* All sequences over S of length at most n.
SeqsUpTo(S, n) == UNION {[1..k -> S] : k \in 0..n}

\* the number of occurrences of x in the sequence s
Count(s, x) == Cardinality({i \in 1..Len(s) : s[i] = x})

\* the set of elements of a sequence
Range(s) == {s[i] : i \in 1..Len(s)}

\* Concatenation of a sequence of sequences.
RECURSIVE Flatten(_)
Flatten(ss) == IF ss = <<>> THEN <<>> ELSE Head(ss) \o Flatten(Tail(ss))

-----------------------------------------------------------------------------
(* merge_regions_and_departments (lines 25-43).                            *)

\* pd.merge(df_dep, df_reg, left_on="region_code", right_on="code",
\*          suffixes=("_dep", "_reg")): inner join in the order of the left rows;
\* the overlapping columns code and name get the suffixes.
MergeDepReg(dep, reg) ==
    Flatten([i \in 1..Len(dep) |->
        LET m == SelectSeq(reg, LAMBDA r : r.code = dep[i].region_code)
        IN  [j \in 1..Len(m) |->
                [region_code |-> dep[i].region_code,
                 code_dep    |-> dep[i].code,
                 name_dep    |-> dep[i].name,
                 code_reg    |-> m[j].code,
                 name_reg    |-> m[j].name]]])

\* the projection on ["code_reg", "name_reg", "code_dep", "name_dep"]
ProjectAreaColumns(t) ==
    [i \in 1..Len(t) |->
        [code_reg |-> t[i].code_reg, name_reg |-> t[i].name_reg,
         code_dep |-> t[i].code_dep, name_dep |-> t[i].name_dep]]

\* the merge with how="left": a department without a region keeps a row
merge_regions_and_departments_left(reg, dep) ==
    Flatten([i \in 1..Len(dep) |->
        LET m == SelectSeq(reg, LAMBDA r : r.code = dep[i].region_code)
        IN  IF m = <<>>
            THEN <<[code_reg |-> NA, name_reg |-> NA,
                    code_dep |-> dep[i].code, name_dep |-> dep[i].name]>>
            ELSE [j \in 1..Len(m) |->
                    [code_reg |-> m[j].code, name_reg |-> m[j].name,
                     code_dep |-> dep[i].code, name_dep |-> dep[i].name]]])

merge_regions_and_departments(reg, dep) == ProjectAreaColumns(MergeDepReg(dep, reg))

\* Inputs of the call.
RegCodes == {Str1("1"), Str1("2")}
RegNames == {Str1("A"), Str1("B")}
DepNames == {Str1("X")}
DepCodesRaw == {<<"0", "7">>, <<"7">>}

RegionRows == [code : RegCodes \cup {NA}, name : RegNames]
DepartmentRows == [region_code : RegCodes \cup {NA}, code : DepCodesRaw, name : DepNames]

Untouched == <<>>

InitAreas ==
    /\ pc = "merge_regions_and_departments"
    /\ df_reg \in SeqsUpTo(RegionRows, MaxRegions)
    /\ df_dep \in SeqsUpTo(DepartmentRows, MaxDepartments)
    /\ regions_and_departments = Untouched
    /\ referendum = Untouched
    /\ local_referendum = Untouched
    /\ local_regions_and_departments = Untouched
    /\ referendum_and_areas = Untouched
    /\ referendum_result_by_regions = Untouched
    /\ gdf = Untouched
    /\ map = Untouched

MergeRegionsAndDepartments ==
    /\ pc = "merge_regions_and_departments"
    /\ regions_and_departments' = merge_regions_and_departments(df_reg, df_dep)
    /\ pc' = "return"
    /\ UNCHANGED <<df_reg, df_dep, referendum, local_referendum,
                   local_regions_and_departments, referendum_and_areas,
                   referendum_result_by_regions, gdf, map>>

NextAreas == MergeRegionsAndDepartments

SpecAreas == InitAreas /\ [][NextAreas]_vars

\* region codes are unique in df_reg
UniqueRegionCodes ==
    \A i, j \in 1..Len(df_reg) : df_reg[i].code = df_reg[j].code => i = j

\* the departments whose region_code is the code of some region
MatchedDepartments ==
    {i \in 1..Len(df_dep) : \E j \in 1..Len(df_reg) : df_reg[j].code = df_dep[i].region_code}

\* the area row the claim describes for department d
AreaOf(d) ==
    [code_reg |-> d.region_code,
     name_reg |-> (CHOOSE r \in Range(df_reg) : r.code = d.region_code).name,
     code_dep |-> d.code,
     name_dep |-> d.name]

\* C3: with unique region codes, the area table has exactly one row per department
\* whose region_code is some region's code and none for the others; a row holds
\* the department's code and name unchanged, its region_code as code_reg, and the
\* name of the region with that code as name_reg.
C3_ReferentialCorrectness ==
    (pc = "return" /\ UniqueRegionCodes) =>
        /\ Len(regions_and_departments) = Cardinality(MatchedDepartments)
        /\ \A i \in MatchedDepartments :
              Count(regions_and_departments, AreaOf(df_dep[i]))
                = Cardinality({k \in MatchedDepartments : AreaOf(df_dep[k]) = AreaOf(df_dep[i])})
        /\ \A k \in 1..Len(regions_and_departments) :
              \E i \in MatchedDepartments : regions_and_departments[k] = AreaOf(df_dep[i])

\* a department '07' of region '1' named 'A' is joined, another department has no region
C3_Witness ==
    /\ pc = "return"
    /\ UniqueRegionCodes
    /\ Len(df_dep) = 2
    /\ Cardinality(MatchedDepartments) = 1
    /\ regions_and_departments =
          <<[code_reg |-> Str1("1"), name_reg |-> Str1("A"),
             code_dep |-> <<"0", "7">>, name_dep |-> Str1("X")]>>

-----------------------------------------------------------------------------
(* merge_referendum_and_areas (lines 46-72).                               *)

\* Series.str.contains(c, na=na) for a one-character literal pattern c
StrContains(cell, c, na) ==
    IF cell = NA THEN na ELSE \E i \in 1..Len(cell) : cell[i] = c

\* Series.astype(str) on an object column: a missing value becomes "nan"
AsStr(cell) == IF cell = NA THEN <<"n", "a", "n">> ELSE cell

RECURSIVE LStripSpace(_)
LStripSpace(s) ==
    IF s # <<>> /\ IsSpace(Head(s)) THEN LStripSpace(Tail(s)) ELSE s

RECURSIVE RStripSpace(_)
RStripSpace(s) ==
    IF s # <<>> /\ IsSpace(s[Len(s)]) THEN RStripSpace(SubSeq(s, 1, Len(s) - 1)) ELSE s

\* str.strip()
Strip(s) == RStripSpace(LStripSpace(s))

\* str.lstrip(c) for one character c
RECURSIVE LStrip(_, _)
LStrip(s, c) == IF s # <<>> /\ Head(s) = c THEN LStrip(Tail(s), c) ELSE s

\* str.fullmatch(r"\d{3}")
FullMatchThreeDigits(s) == Len(s) = 3 /\ \A i \in 1..Len(s) : IsDigit(s[i])

\* str.fullmatch(r"\d+")
FullMatchDigits(s) == Len(s) >= 1 /\ \A i \in 1..Len(s) : IsDigit(s[i])

\* the filter with str.startswith("Z", na=False) in place of str.contains
DropTerritories_startswith(ref) ==
    SelectSeq(ref, LAMBDA b : ~(b.Department_code # NA /\ b.Department_code # <<>>
                                 /\ Head(b.Department_code) = "Z"))

\* line 57: referendum[~referendum["Department code"].str.contains("Z", na=False)]
DropTerritories(ref) ==
    SelectSeq(ref, LAMBDA b : ~StrContains(b.Department_code, "Z", FALSE))

\* line 59: s = regions_and_departments["code_dep"].astype(str).str.strip(), one cell
StrippedCode(cell) == Strip(AsStr(cell))

\* line 62: s.where(~s.str.fullmatch(r"\d+"), s.str.lstrip("0")), one cell
WhereNotDigits(s) == IF ~FullMatchDigits(s) THEN s ELSE LStrip(s, "0")

\* lines 60-64: the rows kept by the mask ~s.str.fullmatch(r"\d{3}"), code_dep
\* assigned from s by row label
NormalizeAreas(areas) ==
    LET kept == SelectSeq([i \in 1..Len(areas) |-> i],
                          LAMBDA i : ~FullMatchThreeDigits(StrippedCode(areas[i].code_dep)))
    IN  [k \in 1..Len(kept) |->
            [areas[kept[k]] EXCEPT !.code_dep = WhereNotDigits(StrippedCode(@))]]

\* a ballot row with the four area columns
WithArea(b, code_reg, name_reg, code_dep, name_dep) ==
    [Department_code |-> b.Department_code, Town_code |-> b.Town_code,
     Registered |-> b.Registered, Abstentions |-> b.Abstentions, Null |-> b.Null,
     Choice_A |-> b.Choice_A, Choice_B |-> b.Choice_B,
     code_reg |-> code_reg, name_reg |-> name_reg,
     code_dep |-> code_dep, name_dep |-> name_dep]

\* the merge with how="inner": a ballot without an area is dropped
LeftMerge_inner(ref, areas) ==
    Flatten([i \in 1..Len(ref) |->
        LET m == SelectSeq(areas, LAMBDA a : a.code_dep = ref[i].Department_code)
        IN  [j \in 1..Len(m) |->
                WithArea(ref[i], m[j].code_reg, m[j].name_reg,
                         m[j].code_dep, m[j].name_dep)]])

\* the merge with how="outer": an area no ballot matches adds a row without ballot
LeftMerge_outer(ref, areas) ==
    Flatten([i \in 1..Len(ref) |->
        LET m == SelectSeq(areas, LAMBDA a : a.code_dep = ref[i].Department_code)
        IN  IF m = <<>>
            THEN <<WithArea(ref[i], NA, NA, NA, NA)>>
            ELSE [j \in 1..Len(m) |->
                    WithArea(ref[i], m[j].code_reg, m[j].name_reg,
                             m[j].code_dep, m[j].name_dep)]])
    \o  LET alone == SelectSeq(areas, LAMBDA a :
                         \A i \in 1..Len(ref) : a.code_dep # ref[i].Department_code)
        IN  [j \in 1..Len(alone) |->
                [Department_code |-> NA, Town_code |-> [dtype |-> "float", i |-> 0, s |-> <<>>],
                 Registered |-> <<>>, Abstentions |-> <<>>, Null |-> <<>>,
                 Choice_A |-> <<>>, Choice_B |-> <<>>,
                 code_reg |-> alone[j].code_reg, name_reg |-> alone[j].name_reg,
                 code_dep |-> alone[j].code_dep, name_dep |-> alone[j].name_dep]]

\* lines 66-68: ref.merge(areas, left_on="Department code", right_on="code_dep", how="left")
LeftMerge(ref, areas) ==
    Flatten([i \in 1..Len(ref) |->
        LET m == SelectSeq(areas, LAMBDA a : a.code_dep = ref[i].Department_code)
        IN  IF m = <<>>
            THEN <<WithArea(ref[i], NA, NA, NA, NA)>>
            ELSE [j \in 1..Len(m) |->
                    WithArea(ref[i], m[j].code_reg, m[j].name_reg,
                             m[j].code_dep, m[j].name_dep)]])

merge_referendum_and_areas(ref, areas) ==
    LeftMerge(DropTerritories(ref), NormalizeAreas(areas))

\* A 'Town code' cell: an integer, or a string.
IntCell(n) == [dtype |-> "int", i |-> n, s |-> <<>>]
StrCell(s) == [dtype |-> "str", i |-> 0, s |-> s]

\* Inputs of the call.
TownCodes == {IntCell(12)}
BallotCodes == {NA, <<"7">>, <<"7", "7">>, <<"7", "Z">>, <<"Z", "7">>, <<"z">>}
AreaCodes == {<<"7">>, <<"0", "7">>, <<" ", "7", " ">>, <<"7", "7">>, <<"0", "7", "7">>}

BallotRows(codes, counts) ==
    [Department_code : codes, Town_code : TownCodes,
     Registered : counts, Abstentions : counts, Null : counts,
     Choice_A : counts, Choice_B : counts]

AreaRows(codes) ==
    [code_reg : RegCodes, name_reg : {Str1("A")}, code_dep : codes, name_dep : DepNames]

InitJoin ==
    /\ pc = "merge_referendum_and_areas"
    /\ referendum \in SeqsUpTo(BallotRows(BallotCodes, {<<1>>}), MaxBallots)
    /\ regions_and_departments \in SeqsUpTo(AreaRows(AreaCodes), MaxAreas)
    /\ df_reg = Untouched
    /\ df_dep = Untouched
    /\ local_referendum = Untouched
    /\ local_regions_and_departments = Untouched
    /\ referendum_and_areas = Untouched
    /\ referendum_result_by_regions = Untouched
    /\ gdf = Untouched
    /\ map = Untouched

MergeReferendumAndAreas ==
    /\ pc = "merge_referendum_and_areas"
    /\ local_referendum' = DropTerritories(referendum)
    /\ local_regions_and_departments' = NormalizeAreas(regions_and_departments)
    /\ referendum_and_areas' = merge_referendum_and_areas(referendum, regions_and_departments)
    /\ pc' = "return"
    /\ UNCHANGED <<df_reg, df_dep, regions_and_departments, referendum,
                   referendum_result_by_regions, gdf, map>>

NextJoin == MergeReferendumAndAreas

SpecJoin == InitJoin /\ [][NextJoin]_vars

\* the ballot columns of a joined row
BallotPart(row) ==
    [Department_code |-> row.Department_code, Town_code |-> row.Town_code,
     Registered |-> row.Registered, Abstentions |-> row.Abstentions, Null |-> row.Null,
     Choice_A |-> row.Choice_A, Choice_B |-> row.Choice_B]

\* the area columns of a joined row
AreaPart(row) ==
    [code_reg |-> row.code_reg, name_reg |-> row.name_reg,
     code_dep |-> row.code_dep, name_dep |-> row.name_dep]

\* the department code is a string with an upper-case Z in it
HasZ(code) == code # NA /\ \E i \in 1..Len(code) : code[i] = "Z"

\* the ballot columns of the rows of the joined table
JoinedBallots == [k \in 1..Len(referendum_and_areas) |-> BallotPart(referendum_and_areas[k])]

\* C2: no row of the joined table comes from a ballot whose 'Department code'
\* contains 'Z', and a ballot whose 'Department code' is missing is still there.
C2_TerritoryExclusion ==
    pc = "return" =>
        \A i \in 1..Len(referendum) :
            /\ HasZ(referendum[i].Department_code) => Count(JoinedBallots, referendum[i]) = 0
            /\ referendum[i].Department_code = NA =>
                  Count(JoinedBallots, referendum[i]) >= Count(referendum, referendum[i])

\* a ballot with code '7Z' and a ballot with a missing code were passed, one row returned
C2_Witness ==
    /\ pc = "return"
    /\ \E i \in 1..Len(referendum) : referendum[i].Department_code = <<"7", "Z">>
    /\ \E i \in 1..Len(referendum) : referendum[i].Department_code = NA
    /\ Len(referendum_and_areas) = 1
    /\ referendum_and_areas[1].Department_code = NA

\* the area rows joined against the ballots, as the claim describes them: the
\* rows whose stripped code is not three digits, with the normalized code
JoinableAreas ==
    {[regions_and_departments[j] EXCEPT !.code_dep = WhereNotDigits(StrippedCode(@))] :
        j \in {j \in 1..Len(regions_and_departments) :
                  ~FullMatchThreeDigits(StrippedCode(regions_and_departments[j].code_dep))}}

NullArea == [code_reg |-> NA, name_reg |-> NA, code_dep |-> NA, name_dep |-> NA]

\* C7: every ballot the 'Z' rule keeps is in the joined table; the area columns
\* of a joined row are those of an area row whose normalized code is the
\* ballot's 'Department code', and are all missing when there is none.
C7_LeftJoin ==
    pc = "return" =>
        /\ \A i \in 1..Len(referendum) :
              ~HasZ(referendum[i].Department_code) => Count(JoinedBallots, referendum[i]) >= 1
        /\ \A k \in 1..Len(referendum_and_areas) :
              LET row == referendum_and_areas[k]
                  m   == {a \in JoinableAreas : a.code_dep = row.Department_code}
              IN  IF m = {} THEN AreaPart(row) = NullArea ELSE AreaPart(row) \in m

\* area '07' is matched by ballot '7'; area '077' is dropped and ballot '77' has no area
C7_Witness ==
    /\ pc = "return"
    /\ Len(regions_and_departments) = 2
    /\ regions_and_departments[1].code_dep = <<"0", "7">>
    /\ regions_and_departments[2].code_dep = <<"0", "7", "7">>
    /\ \E k \in 1..Len(referendum_and_areas) :
          /\ referendum_and_areas[k].Department_code = <<"7">>
          /\ referendum_and_areas[k].code_dep = <<"7">>
          /\ referendum_and_areas[k].code_reg # NA
    /\ \E k \in 1..Len(referendum_and_areas) :
          /\ referendum_and_areas[k].Department_code = <<"7", "7">>
          /\ AreaPart(referendum_and_areas[k]) = NullArea

\* the ballots the 'Z' filter keeps
RetainedBallots == {i \in 1..Len(referendum) : ~HasZ(referendum[i].Department_code)}

\* the joined table has exactly one row per retained ballot
OneRowPerBallot ==
    /\ Len(referendum_and_areas) = Cardinality(RetainedBallots)
    /\ \A i \in RetainedBallots :
          Count(JoinedBallots, referendum[i]) = Count(referendum, referendum[i])

\* the department codes of the area table as passed are pairwise distinct
DistinctRawCodes ==
    \A i, j \in 1..Len(regions_and_departments) :
        regions_and_departments[i].code_dep = regions_and_departments[j].code_dep => i = j

\* the department codes of the area rows joined are pairwise distinct
DistinctNormalizedCodes ==
    \A i, j \in 1..Len(local_regions_and_departments) :
        local_regions_and_departments[i].code_dep = local_regions_and_departments[j].code_dep
            => i = j

\* C10 as stated: with pairwise distinct department codes in the area table
\* passed, the joined table has exactly one row per ballot the 'Z' filter keeps.
C10_NoDuplicateBallot_AsStated ==
    (pc = "return" /\ DistinctRawCodes) => OneRowPerBallot

\* C10 as amended: with pairwise distinct department codes after normalization,
\* the joined table has exactly one row per ballot the 'Z' filter keeps.
C10_NoDuplicateBallot ==
    (pc = "return" /\ DistinctNormalizedCodes) => OneRowPerBallot

\* two area rows with distinct normalized codes, one of them matched by a ballot
C10_Witness ==
    /\ pc = "return"
    /\ Len(local_regions_and_departments) = 2
    /\ DistinctNormalizedCodes
    /\ \E k \in 1..Len(referendum_and_areas) : referendum_and_areas[k].code_reg # NA
    /\ \E j \in 1..2 : regions_and_departments[j].code_dep
                          # local_regions_and_departments[j].code_dep

-----------------------------------------------------------------------------
(* merge_referendum_and_areas on every short code: at most one area row    *)
(* and one ballot.                                                         *)

BallotAlphabet == {"7", "Z"}
AreaAlphabet == {"0", "7", " "}

InitTerritory ==
    /\ pc = "merge_referendum_and_areas"
    /\ referendum
          \in SeqsUpTo(BallotRows(SeqsUpTo(BallotAlphabet, MaxTerritoryCodeLen) \cup {NA},
                                  {<<1>>}), 1)
    /\ regions_and_departments
          \in SeqsUpTo(AreaRows(SeqsUpTo(AreaAlphabet, MaxTerritoryCodeLen) \cup {NA}), 1)
    /\ df_reg = Untouched
    /\ df_dep = Untouched
    /\ local_referendum = Untouched
    /\ local_regions_and_departments = Untouched
    /\ referendum_and_areas = Untouched
    /\ referendum_result_by_regions = Untouched
    /\ gdf = Untouched
    /\ map = Untouched

SpecTerritory == InitTerritory /\ [][NextJoin]_vars

\* C4: a department code that survives the normalization of lines 59-64 with
\* result c survives a second normalization, with result c again.
C4_NormalizationIdempotent ==
    pc = "return" =>
        NormalizeAreas(local_regions_and_departments) = local_regions_and_departments

\* C8: no area row joined against the ballots has a department code of exactly
\* three digits, and no ballot is matched to an area through such a code.
C8_NoThreeDigitCodeJoined ==
    pc = "return" =>
        /\ \A j \in 1..Len(local_regions_and_departments) :
              ~FullMatchThreeDigits(local_regions_and_departments[j].code_dep)
        /\ \A k \in 1..Len(referendum_and_areas) :
              referendum_and_areas[k].code_dep = NA
                  \/ ~FullMatchThreeDigits(referendum_and_areas[k].code_dep)

-----------------------------------------------------------------------------
(* compute_referendum_result_by_regions (lines 75-96).                     *)

DigitChars == <<"0", "1", "2", "3", "4", "5", "6", "7", "8", "9">>

\* str(n) for an integer n >= 0
RECURSIVE IntToStr(_)
IntToStr(n) ==
    IF n < 10 THEN <<DigitChars[n + 1]>>
    ELSE IntToStr(n \div 10) \o <<DigitChars[(n % 10) + 1]>>

\* lines 81-83: Series.astype(str), one 'Town code' cell
AsTypeStr(cell) == IF cell.dtype = "int" THEN StrCell(IntToStr(cell.i)) ELSE cell

\* the five count columns
CountColumns == {"Registered", "Abstentions", "Null", "Choice_A", "Choice_B"}

\* "sum" with skipna=False: a missing value makes the sum missing
RECURSIVE SumCol_noskip(_, _)
SumCol_noskip(rows, col) ==
    IF rows = <<>> THEN <<0>>
    ELSE LET rest == SumCol_noskip(Tail(rows), col)
         IN  IF Head(rows)[col] = Missing \/ rest = Missing THEN Missing
             ELSE <<Head(rows)[col][1] + rest[1]>>

\* "sum": the sum of the cells of a column, missing cells skipped
RECURSIVE SumCol(_, _)
SumCol(rows, col) ==
    IF rows = <<>> THEN <<0>>
    ELSE IF Head(rows)[col] = Missing THEN SumCol(Tail(rows), col)
    ELSE <<Head(rows)[col][1] + SumCol(Tail(rows), col)[1]>>

\* "first": the first value of name_reg that is not missing
FirstName(rows) ==
    LET present == SelectSeq(rows, LAMBDA r : r.name_reg # NA)
    IN  IF present = <<>> THEN NA ELSE present[1].name_reg

\* the strings of a set in increasing order
RECURSIVE SortedStrings(_)
SortedStrings(S) ==
    IF S = {} THEN <<>>
    ELSE LET least == CHOOSE x \in S : \A y \in S \ {x} : StrLess(x, y)
         IN  <<least>> \o SortedStrings(S \ {least})

\* groupby("code_reg"): the keys in increasing order, a missing key in no group
GroupKeys(t) == SortedStrings({t[k].code_reg : k \in 1..Len(t)} \ {NA})

\* lines 85-96
GroupByRegion(t) ==
    LET keys == GroupKeys(t)
    IN  [g \in 1..Len(keys) |->
            LET rows == SelectSeq(t, LAMBDA r : r.code_reg = keys[g])
            IN  [code_reg    |-> keys[g],
                 name_reg    |-> FirstName(rows),
                 Registered  |-> SumCol(rows, "Registered"),
                 Abstentions |-> SumCol(rows, "Abstentions"),
                 Null        |-> SumCol(rows, "Null"),
                 Choice_A    |-> SumCol(rows, "Choice_A"),
                 Choice_B    |-> SumCol(rows, "Choice_B")]]

\* Inputs of the call: a joined row has at most one count that is not 0.
CountCells == {Missing, <<0>>, <<1>>, <<2>>}

ZeroCounts == [c \in CountColumns |-> <<0>>]

CountVectors == {[ZeroCounts EXCEPT ![c] = v] : c \in CountColumns, v \in CountCells}

RegNameOf(code) == IF code = NA THEN NA ELSE IF code = Str1("1") THEN Str1("A") ELSE Str1("B")

JoinedRows ==
    {WithArea([Department_code |-> IF r = NA THEN NA ELSE <<"7">>,
               Town_code |-> t,
               Registered |-> v["Registered"], Abstentions |-> v["Abstentions"],
               Null |-> v["Null"], Choice_A |-> v["Choice_A"], Choice_B |-> v["Choice_B"]],
              r, RegNameOf(r), IF r = NA THEN NA ELSE <<"7">>, IF r = NA THEN NA ELSE Str1("X")) :
        r \in RegCodes \cup {NA}, t \in TownCodes, v \in CountVectors}

InitRegions ==
    /\ pc = "compute_referendum_result_by_regions"
    /\ referendum_and_areas \in SeqsUpTo(JoinedRows, MaxJoinedRows)
    /\ df_reg = Untouched
    /\ df_dep = Untouched
    /\ regions_and_departments = Untouched
    /\ referendum = Untouched
    /\ local_referendum = Untouched
    /\ local_regions_and_departments = Untouched
    /\ referendum_result_by_regions = Untouched
    /\ gdf = Untouched
    /\ map = Untouched

ComputeReferendumResultByRegions ==
    /\ pc = "compute_referendum_result_by_regions"
    /\ referendum_and_areas' =
          [k \in 1..Len(referendum_and_areas) |->
              [referendum_and_areas[k] EXCEPT !.Town_code = AsTypeStr(@)]]
    /\ referendum_result_by_regions' = GroupByRegion(referendum_and_areas)
    /\ pc' = "return"
    /\ UNCHANGED <<df_reg, df_dep, regions_and_departments, referendum,
                   local_referendum, local_regions_and_departments, gdf, map>>

NextRegions == ComputeReferendumResultByRegions

SpecRegions == InitRegions /\ [][NextRegions]_vars

\* the total of a count column over the rows of t chosen by idx, a missing count as 0
RECURSIVE TotalOver(_, _, _)
TotalOver(t, idx, col) ==
    IF idx = {} THEN 0
    ELSE LET k == CHOOSE k \in idx : TRUE
         IN  (IF t[k][col] = Missing THEN 0 ELSE t[k][col][1]) + TotalOver(t, idx \ {k}, col)

\* the rows of the joined table that have a region
RowsWithRegion == {k \in 1..Len(referendum_and_areas) : referendum_and_areas[k].code_reg # NA}

\* C1: for each count column, the sum over the per-region table equals the sum
\* over the joined rows whose code_reg is not missing, a missing count as 0.
C1_SumConservation ==
    pc = "return" =>
        \A col \in CountColumns :
            TotalOver(referendum_result_by_regions,
                      1..Len(referendum_result_by_regions), col)
              = TotalOver(referendum_and_areas, RowsWithRegion, col)

\* one row with a region and a missing count, one row without region whose count is left out
C1_Witness ==
    /\ pc = "return"
    /\ Len(referendum_and_areas) = 2
    /\ referendum_and_areas[1].code_reg = Str1("1")
    /\ referendum_and_areas[1].Registered = Missing
    /\ referendum_and_areas[2].code_reg = NA
    /\ referendum_and_areas[2].Registered = <<2>>
    /\ Len(referendum_result_by_regions) = 1
    /\ referendum_result_by_regions[1].Registered = <<0>>

\* C9: no function changes a table passed to it.
C9_NoInputMutation ==
    [][/\ pc = "merge_regions_and_departments" => UNCHANGED <<df_reg, df_dep>>
       /\ pc = "merge_referendum_and_areas" => UNCHANGED <<referendum, regions_and_departments>>
       /\ pc = "compute_referendum_result_by_regions" => UNCHANGED referendum_and_areas
       /\ pc = "plot_referendum_map" => UNCHANGED referendum_result_by_regions]_vars

-----------------------------------------------------------------------------
(* plot_referendum_map (lines 99-117).                                     *)

\* A float64: not-a-number, an infinity, or the fraction num/den in lowest terms.
FloatNaN == [kind |-> "nan", num |-> 0, den |-> 0]
FloatInf(sign) == [kind |-> "inf", num |-> sign, den |-> 0]

RECURSIVE GCD(_, _)
GCD(a, b) == IF b = 0 THEN a ELSE GCD(b, a % b)

Abs(a) == IF a < 0 THEN 0 - a ELSE a

Fraction(a, b) ==
    LET g == GCD(Abs(a), Abs(b))
        sgn == IF b < 0 THEN 0 - 1 ELSE 1
    IN  [kind |-> "num", num |-> sgn * (a \div g), den |-> sgn * (b \div g)]

\* Series + Series, one cell: a missing operand gives a missing sum
AddCells(x, y) == IF x = Missing \/ y = Missing THEN Missing ELSE <<x[1] + y[1]>>

\* a division that gives 0 where the denominator is 0
TrueDiv_zero(x, y) ==
    IF x = Missing \/ y = Missing THEN FloatNaN
    ELSE IF y[1] = 0 THEN [kind |-> "num", num |-> 0, den |-> 1]
    ELSE Fraction(x[1], y[1])

\* Series / Series, one cell: 0/0 is NaN, a/0 is an infinity, no exception
TrueDiv(x, y) ==
    IF x = Missing \/ y = Missing THEN FloatNaN
    ELSE IF y[1] = 0
         THEN IF x[1] = 0 THEN FloatNaN ELSE FloatInf(IF x[1] < 0 THEN 0 - 1 ELSE 1)
    ELSE Fraction(x[1], y[1])

\* the rate of 'Choice A' over all ballots cast, null ballots included
Ratio_with_null(row) ==
    TrueDiv(row.Choice_A, AddCells(AddCells(row.Choice_A, row.Choice_B), row.Null))

\* line 111: map["Choice A"] / (map["Choice A"] + map["Choice B"]), one row
Ratio(row) == TrueDiv(row.Choice_A, AddCells(row.Choice_A, row.Choice_B))

\* line 109: gdf.rename(columns={"code": "code_reg"})
RenameCode(g) == [i \in 1..Len(g) |-> [code_reg |-> g[i].code, geometry |-> g[i].geometry]]

\* line 110: gdf.merge(referendum_result_by_regions, on="code_reg", how="inner")
MergeGeometry(g, res) ==
    Flatten([i \in 1..Len(g) |->
        LET m == SelectSeq(res, LAMBDA r : r.code_reg = g[i].code_reg)
        IN  [j \in 1..Len(m) |->
                [code_reg |-> g[i].code_reg, geometry |-> g[i].geometry,
                 name_reg |-> m[j].name_reg,
                 Registered |-> m[j].Registered, Abstentions |-> m[j].Abstentions,
                 Null |-> m[j].Null, Choice_A |-> m[j].Choice_A,
                 Choice_B |-> m[j].Choice_B]]])

\* a row of the map with its ratio
WithRatio(row) ==
    [code_reg |-> row.code_reg, geometry |-> row.geometry, name_reg |-> row.name_reg,
     Registered |-> row.Registered, Abstentions |-> row.Abstentions,
     Null |-> row.Null, Choice_A |-> row.Choice_A, Choice_B |-> row.Choice_B,
     ratio |-> Ratio(row)]

plot_referendum_map(g, res) ==
    LET merged == MergeGeometry(RenameCode(g), res)
    IN  [k \in 1..Len(merged) |-> WithRatio(merged[k])]

\* Inputs of the call: a per-region table has one row per code, in increasing order.
VoteCells == {<<n>> : n \in 0..MaxVotes}

RegionResultRows(code) ==
    [code_reg : {code}, name_reg : {RegNameOf(code)},
     Registered : {<<5>>}, Abstentions : {<<0>>, <<1>>}, Null : {<<0>>, <<1>>},
     Choice_A : VoteCells, Choice_B : VoteCells]

\* the tables with one row for each key of a sequence of keys
RECURSIVE ResultsFor(_)
ResultsFor(keys) ==
    IF keys = <<>> THEN {<<>>}
    ELSE {<<r>> \o t : r \in RegionResultRows(Head(keys)), t \in ResultsFor(Tail(keys))}

SortedResults ==
    UNION {ResultsFor(SortedStrings(S)) :
              S \in {S \in SUBSET RegCodes : Cardinality(S) <= MaxRegions}}

GeoRows == [code : RegCodes, geometry : {"polygon"}]

InitMap ==
    /\ pc = "plot_referendum_map"
    /\ referendum_result_by_regions \in SortedResults
    /\ gdf \in SeqsUpTo(GeoRows, MaxGeo)
    /\ df_reg = Untouched
    /\ df_dep = Untouched
    /\ regions_and_departments = Untouched
    /\ referendum = Untouched
    /\ local_referendum = Untouched
    /\ local_regions_and_departments = Untouched
    /\ referendum_and_areas = Untouched
    /\ map = Untouched

PlotReferendumMap ==
    /\ pc = "plot_referendum_map"
    /\ map' = plot_referendum_map(gdf, referendum_result_by_regions)
    /\ pc' = "return"
    /\ UNCHANGED <<df_reg, df_dep, regions_and_departments, referendum,
                   local_referendum, local_regions_and_departments,
                   referendum_and_areas, referendum_result_by_regions, gdf>>

NextMap == PlotReferendumMap

SpecMap == InitMap /\ [][NextMap]_vars

\* C5: a region of the map whose 'Choice A' and 'Choice B' are both 0 has the
\* ratio NaN: the call returns, and the ratio is no number.
C5_ZeroDenominator ==
    pc = "return" =>
        \A k \in 1..Len(map) :
            (map[k].Choice_A = <<0>> /\ map[k].Choice_B = <<0>>) => map[k].ratio = FloatNaN

\* the map returned has a region without ballots cast and a region with some
C5_Witness ==
    /\ pc = "return"
    /\ Len(map) = 2
    /\ map[1].Choice_A = <<0>> /\ map[1].Choice_B = <<0>>
    /\ map[2].Choice_A = <<1>>

\* C6: a row of the map with 'Choice A' >= 0, 'Choice B' >= 0 and a sum that is
\* not 0 has ratio = Choice A / (Choice A + Choice B), between 0 and 1.
C6_RatioValue ==
    pc = "return" =>
        \A k \in 1..Len(map) :
            LET a == map[k].Choice_A[1]
                b == map[k].Choice_B[1]
                r == map[k].ratio
            IN  (a >= 0 /\ b >= 0 /\ a + b # 0) =>
                    /\ r.kind = "num"
                    /\ r.den > 0
                    /\ r.num * (a + b) = a * r.den
                    /\ 0 <= r.num /\ r.num <= r.den

\* a region with 1 for A, 2 for B and a null ballot has the ratio 1/3
C6_Witness ==
    /\ pc = "return"
    /\ \E k \in 1..Len(map) :
          /\ map[k].Choice_A = <<1>> /\ map[k].Choice_B = <<2>> /\ map[k].Null = <<1>>
          /\ map[k].ratio = [kind |-> "num", num |-> 1, den |-> 3]

====
